---- MODULE Spec2Model ----
(***************************************************************************)
(* BibFix (bibfixer): duplicate detection and merging, key uniquifying and *)
(* DOI enrichment of a bibliography.                                        *)
(*                                                                         *)
(* A text value (a Python str) is a sequence of characters, each character *)
(* a one-character string; the empty str is <<>>.  An entry (a Python dict) *)
(* is a function from its field names to text values.  database.entries is *)
(* a sequence of entries.                                                   *)
(***************************************************************************)
EXTENDS Integers, Sequences, FiniteSets, TLC

VARIABLES
    pc,       \* the operation in hand and its position
    input,    \* database.entries as first handed to the operation
    prev,     \* database.entries before the last call
    entries,  \* database.entries now
    ret,      \* what the last call returned (and what it did on the way)
    runs      \* calls made so far

vars == <<pc, input, prev, entries, ret, runs>>

(***************************************************************************)
(* Bounds of the model.                                                    *)
(***************************************************************************)
MaxEntries == 3

(***************************************************************************)
(* Characters and str methods.                                             *)
(***************************************************************************)
Letters == <<"a","b","c","d","e","f","g","h","i","j","k","l","m",
             "n","o","p","q","r","s","t","u","v","w","x","y","z">>
UpperLetters == <<"A","B","C","D","E","F","G","H","I","J","K","L","M",
                  "N","O","P","Q","R","S","T","U","V","W","X","Y","Z">>
DigitChars == <<"0","1","2","3","4","5","6","7","8","9">>

Range(s) == {s[i] : i \in DOMAIN s}

\* A list given as a function over 1..n, evaluated once into a sequence.
List(f) == f \o <<>>

\* One code point outside ASCII is carried by a named token.
E_ACUTE == "E-acute"

\* unidecode of one character: its ASCII transliteration (a str).
unidecode_char(c) == IF c = E_ACUTE THEN <<"E">> ELSE <<c>>

RECURSIVE unidecode_from(_, _)
unidecode_from(s, i) ==
    IF i > Len(s) THEN <<>> ELSE unidecode_char(s[i]) \o unidecode_from(s, i + 1)

\* ASCII text is its own transliteration.
unidecode(s) ==
    IF \A i \in DOMAIN s : unidecode_char(s[i]) = <<s[i]>> THEN s ELSE unidecode_from(s, 1)

UpperSet == Range(UpperLetters)
DigitSet == Range(DigitChars)
AlnumSet == Range(DigitChars) \cup Range(Letters) \cup Range(UpperLetters)
SpaceSet == {" ", "\t", "\n"}
LowerOf == [c \in UpperSet |-> Letters[CHOOSE i \in DOMAIN UpperLetters : UpperLetters[i] = c]]

lower_char(c) == IF c \in UpperSet THEN LowerOf[c] ELSE c

lower(s) == List([i \in DOMAIN s |-> lower_char(s[i])])

isspace(c) == c \in SpaceSet
isdigit(c) == c \in DigitSet
isalnum(c) == c \in AlnumSet

RECURSIVE lstrip(_)
lstrip(s) == IF s # <<>> /\ isspace(Head(s)) THEN lstrip(Tail(s)) ELSE s

RECURSIVE rstrip(_)
rstrip(s) == IF s # <<>> /\ isspace(s[Len(s)]) THEN rstrip(SubSeq(s, 1, Len(s) - 1)) ELSE s

strip(s) == rstrip(lstrip(s))

startswith(s, p) == Len(s) >= Len(p) /\ SubSeq(s, 1, Len(p)) = p

drop(s, n) == SubSeq(s, n + 1, Len(s))

\* s.find(sub): the first index (from 1) at which sub occurs in s, 0 if none.
find(s, sub) ==
    LET hits == {i \in 1..(Len(s) - Len(sub) + 1) : SubSeq(s, i, i + Len(sub) - 1) = sub}
    IN  IF hits = {} THEN 0 ELSE CHOOSE i \in hits : \A j \in hits : i <= j

\* s.rfind(sub): the last such index, 0 if none.
rfind(s, sub) ==
    LET hits == {i \in 1..(Len(s) - Len(sub) + 1) : SubSeq(s, i, i + Len(sub) - 1) = sub}
    IN  IF hits = {} THEN 0 ELSE CHOOSE i \in hits : \A j \in hits : i >= j

\* s.split(sep)[0] and s.split(sep)[-1]
split_first(s, sep) == IF find(s, sep) = 0 THEN s ELSE SubSeq(s, 1, find(s, sep) - 1)
split_last(s, sep) == IF rfind(s, sep) = 0 THEN s ELSE drop(s, rfind(s, sep) + Len(sep) - 1)

\* "".join(filter(pred, s)) for pred = str.isalnum
RECURSIVE filter_alnum(_)
filter_alnum(s) ==
    IF s = <<>> THEN <<>>
    ELSE (IF isalnum(Head(s)) THEN <<Head(s)>> ELSE <<>>) \o filter_alnum(Tail(s))

\* The indices of a sequence of booleans that hold TRUE, in order.
RECURSIVE IdxWhere(_, _)
IdxWhere(mask, i) ==
    IF i > Len(mask) THEN <<>>
    ELSE (IF mask[i] THEN <<i>> ELSE <<>>) \o IdxWhere(mask, i + 1)

\* entry.get(key, '')
Get(entry, key) == IF key \in DOMAIN entry THEN entry[key] ELSE <<>>

\* entry with entry[key] = value
Put(entry, key, value) ==
    [k \in DOMAIN entry \cup {key} |-> IF k = key THEN value ELSE entry[k]]

IdsOf(es) == List([i \in DOMAIN es |-> Get(es[i], "ID")])

Distinct(ids) == \A i, j \in DOMAIN ids : i # j => ids[i] # ids[j]

\* Where an ID stands in a list of pairwise-distinct IDs.
PosOf(ids, id) == CHOOSE i \in DOMAIN ids : ids[i] = id

(***************************************************************************)
(* deduplicator.py                                                         *)
(***************************************************************************)
normalize_key_text(text) ==
    IF text = <<>> THEN <<>> ELSE strip(lower(unidecode(text)))

S_AND == <<" ","a","n","d"," ">>
TitleMinLen == 10

\* None, which the callers test only by truth value, is <<>>.
doi_fingerprint(entry) ==
    IF "doi" \in DOMAIN entry /\ strip(entry["doi"]) # <<>>
    THEN normalize_key_text(entry["doi"])
    ELSE <<>>

content_fingerprint(entry) ==
    LET title == normalize_key_text(Get(entry, "title"))
        author_str == normalize_key_text(Get(entry, "author"))
        year == normalize_key_text(Get(entry, "year"))
        first_part == split_first(author_str, S_AND)
        simple_author ==
            IF author_str = <<>> THEN <<>>
            ELSE IF "," \in Range(first_part)
                 THEN strip(split_first(first_part, <<",">>))
                 ELSE strip(split_last(first_part, <<" ">>))
    IN  IF title # <<>> /\ Len(title) > TitleMinLen /\ (author_str # <<>> \/ year # <<>>)
        THEN <<filter_alnum(title), simple_author, year>>
        ELSE <<>>

get_entry_fingerprint(entry) ==
    [doi_fp |-> doi_fingerprint(entry), content_fp |-> content_fingerprint(entry)]

\* A slip: the other entry's non-empty values win over the master's.
merge_one_overwrites(master, other) ==
    [k \in DOMAIN master \cup DOMAIN other |->
        IF k \in DOMAIN other /\ (k \notin DOMAIN master \/ other[k] # <<>>)
        THEN other[k]
        ELSE master[k]]

\* One pass of the inner loop of merge_entries: master filled from other.
merge_one(master, other) ==
    [k \in DOMAIN master \cup DOMAIN other |->
        IF k \in DOMAIN other /\ (k \notin DOMAIN master \/ master[k] = <<>>)
        THEN other[k]
        ELSE master[k]]

RECURSIVE merge_from(_, _, _)
merge_from(master, es, i) ==
    IF i > Len(es) THEN master ELSE merge_from(merge_one(master, es[i]), es, i + 1)

merge_entries(es) == merge_from(es[1], es, 2)

\* entries_by_id after the first pass: each ID holds the last entry carrying it
\* (the position of that dict in database.entries).
entries_by_id(es) ==
    [id \in Range(IdsOf(es)) |->
        CHOOSE i \in DOMAIN es :
            /\ es[i]["ID"] = id
            /\ \A j \in DOMAIN es : es[j]["ID"] = id => j <= i]

\* The keys of a defaultdict(list) in insertion order: the truthy fingerprints
\* in the order they are first met.
group_keys(fps) ==
    LET first == IdxWhere(List([i \in DOMAIN fps |->
                              fps[i] # <<>> /\ \A j \in 1..(i - 1) : fps[j] # fps[i]]), 1)
    IN  List([n \in DOMAIN first |-> fps[first[n]]])

\* The list a key holds: the IDs of the entries with that fingerprint, in
\* the order of database.entries.
group_ids(fps, ids, key) ==
    LET at == IdxWhere(List([i \in DOMAIN fps |-> fps[i] = key]), 1)
    IN  List([n \in DOMAIN at |-> ids[at[n]]])

doi_groups(es, fingerprints) ==
    LET fps == List([i \in DOMAIN es |-> fingerprints[i].doi_fp])
        keys == group_keys(fps)
    IN  List([n \in DOMAIN keys |-> [kind |-> "doi", ids |-> group_ids(fps, IdsOf(es), keys[n])]])

content_groups(es, fingerprints) ==
    LET fps == List([i \in DOMAIN es |-> fingerprints[i].content_fp])
        keys == group_keys(fps)
    IN  List([n \in DOMAIN keys |-> [kind |-> "content", ids |-> group_ids(fps, IdsOf(es), keys[n])]])

\* A slip: the last valid ID is taken as the master.
process_group_last_master(st, group, by_id) ==
    LET kept == SelectSeq(group.ids, LAMBDA eid : eid \notin st.removed)
        valid_ids == List([n \in DOMAIN kept |-> kept[Len(kept) + 1 - n]])
        master_id == valid_ids[1]
        duplicates_to_merge == List([n \in DOMAIN valid_ids |-> st.objs[by_id[valid_ids[n]]]])
    IN  IF Len(valid_ids) < 2 THEN st
        ELSE [objs |-> [st.objs EXCEPT ![by_id[master_id]] = merge_entries(duplicates_to_merge)],
              removed |-> st.removed \cup {valid_ids[n] : n \in 2..Len(valid_ids)},
              count |-> st.count + (Len(valid_ids) - 1),
              merges |-> Append(st.merges, [kind |-> group.kind, ids |-> valid_ids])]

\* process_group on the closure's state st: objs are the dicts of
\* database.entries (mutated in place), removed is ids_to_remove, count is
\* merged_count; merges notes each merge made (master first).
process_group(st, group, by_id) ==
    LET valid_ids == SelectSeq(group.ids, LAMBDA eid : eid \notin st.removed)
        master_id == valid_ids[1]
        duplicates_to_merge == List([n \in DOMAIN valid_ids |-> st.objs[by_id[valid_ids[n]]]])
    IN  IF Len(valid_ids) < 2 THEN st
        ELSE [objs |-> [st.objs EXCEPT ![by_id[master_id]] = merge_entries(duplicates_to_merge)],
              removed |-> st.removed \cup {valid_ids[n] : n \in 2..Len(valid_ids)},
              count |-> st.count + (Len(valid_ids) - 1),
              merges |-> Append(st.merges, [kind |-> group.kind, ids |-> valid_ids])]

\* The two loops over doi_groups.items() and content_groups.items().
RECURSIVE process_groups(_, _, _, _)
process_groups(st, groups, by_id, n) ==
    IF n > Len(groups) THEN st
    ELSE process_groups(IF Len(groups[n].ids) > 1
                        THEN process_group(st, groups[n], by_id)
                        ELSE st,
                        groups, by_id, n + 1)

\* A slip: the entries marked for removal stay in database.entries.
rebuild_keeps_all(objs, removed) == objs

\* The rebuild of database.entries at the end of deduplicate_database.
rebuild(objs, removed) ==
    IF removed # {} THEN SelectSeq(objs, LAMBDA e : e["ID"] \notin removed) ELSE objs

\* deduplicate_database(database): the new database.entries, the second
\* component of the returned tuple (merged_count, an int), and what the run
\* did (removed = ids_to_remove, merges).
deduplicate_database(es) ==
    LET st0 == [objs |-> es, removed |-> {}, count |-> 0, merges |-> <<>>]
        fingerprints == List([i \in DOMAIN es |-> get_entry_fingerprint(es[i])])
        groups == doi_groups(es, fingerprints) \o content_groups(es, fingerprints)
        fin == process_groups(st0, groups, entries_by_id(es), 1)
    IN  [entries |-> rebuild(fin.objs, fin.removed),
         second |-> [type |-> "int", val |-> fin.count],
         removed |-> fin.removed,
         merges |-> fin.merges]

\* chr(code) for the codes of 'a'..'z', and str(n) for n >= 0.
ORD_a == 97
ORD_z == 122
FirstSuffixNum == 2

chr(code) == <<Letters[code - ORD_a + 1]>>

RECURSIVE str(_)
str(n) == IF n < 10 THEN <<DigitChars[n + 1]>> ELSE str(n \div 10) \o <<DigitChars[(n % 10) + 1]>>

\* f"{original_key}_{suffix}"
suffixed(original_key, suffix) == original_key \o <<"_">> \o suffix

\* The while loop of uniquify_keys: the first candidate not in existing_keys.
RECURSIVE probe(_, _, _, _, _)
probe(original_key, existing_keys, suffix_char_code, suffix_num, candidate) ==
    IF candidate \notin existing_keys THEN candidate
    ELSE IF suffix_char_code + 1 > ORD_z
         THEN probe(original_key, existing_keys, suffix_char_code + 1, suffix_num + 1,
                    suffixed(original_key, str(suffix_num)))
         ELSE probe(original_key, existing_keys, suffix_char_code + 1, suffix_num,
                    suffixed(original_key, chr(suffix_char_code + 1)))

\* A slip: the key put into existing_keys is the original one, not the new one.
uniquify_entry_forgets(st, entry) ==
    LET original_key == entry["ID"]
        new_key == IF original_key \in st.existing_keys
                   THEN probe(original_key, st.existing_keys, ORD_a, FirstSuffixNum,
                              suffixed(original_key, chr(ORD_a)))
                   ELSE original_key
    IN  [existing_keys |-> st.existing_keys \cup {original_key},
         renamed_count |-> st.renamed_count + (IF new_key = original_key THEN 0 ELSE 1),
         out |-> Append(st.out, Put(entry, "ID", new_key))]

\* A slip: the first candidate tried is _b.
uniquify_entry_starts_at_b(st, entry) ==
    LET original_key == entry["ID"]
        renames == original_key \in st.existing_keys
        new_key == IF renames
                   THEN probe(original_key, st.existing_keys, ORD_a + 1, FirstSuffixNum,
                              suffixed(original_key, chr(ORD_a + 1)))
                   ELSE original_key
    IN  [existing_keys |-> st.existing_keys \cup {new_key},
         renamed_count |-> st.renamed_count + (IF renames THEN 1 ELSE 0),
         out |-> Append(st.out, Put(entry, "ID", new_key))]

\* The body of the for loop of uniquify_keys on one entry.
uniquify_entry(st, entry) ==
    LET original_key == entry["ID"]
        renames == original_key \in st.existing_keys
        new_key == IF renames
                   THEN probe(original_key, st.existing_keys, ORD_a, FirstSuffixNum,
                              suffixed(original_key, chr(ORD_a)))
                   ELSE original_key
    IN  [existing_keys |-> st.existing_keys \cup {new_key},
         renamed_count |-> st.renamed_count + (IF renames THEN 1 ELSE 0),
         out |-> Append(st.out, Put(entry, "ID", new_key))]

RECURSIVE uniquify_loop(_, _, _)
uniquify_loop(st, es, i) ==
    IF i > Len(es) THEN st ELSE uniquify_loop(uniquify_entry(st, es[i]), es, i + 1)

\* A slip: existing_keys starts from a first pass that counted every ID.
uniquify_keys_counted_first(es) ==
    LET fin == uniquify_loop([existing_keys |-> Range(IdsOf(es)), renamed_count |-> 0, out |-> <<>>],
                             es, 1)
    IN  [entries |-> fin.out, renamed_count |-> fin.renamed_count]

\* uniquify_keys(database): the entries with their new IDs and renamed_count.
uniquify_keys(es) ==
    LET fin == uniquify_loop([existing_keys |-> {}, renamed_count |-> 0, out |-> <<>>], es, 1)
    IN  [entries |-> fin.out, renamed_count |-> fin.renamed_count]

(***************************************************************************)
(* enricher.py: DOI normalisation and validation.                          *)
(***************************************************************************)
S_doi_org == <<"d","o","i",".","o","r","g","/">>
S_http == <<"h","t","t","p",":","/","/">>
S_https == <<"h","t","t","p","s",":","/","/">>
S_dx == <<"d","x",".">>
S_doi_label == <<"d","o","i",":">>
S_ten_dot == <<"1","0",".">>
DoiMinDigits == 4
DoiMaxDigits == 9

\* The strings ^(https?://(dx\.)?doi\.org/) matches.
ResolverPrefixes ==
    { S_http \o S_doi_org, S_https \o S_doi_org,
      S_http \o S_dx \o S_doi_org, S_https \o S_dx \o S_doi_org }

\* re.sub(r"^(https?://(dx\.)?doi\.org/)", "", s, flags=re.IGNORECASE)
sub_resolver(s) ==
    LET hit == {p \in ResolverPrefixes : startswith(lower(s), p)}
    IN  IF hit = {} THEN s ELSE drop(s, Len(CHOOSE p \in hit : TRUE))

\* re.sub(r"^doi:\s*", "", s, flags=re.IGNORECASE)
sub_doi_label(s) ==
    IF startswith(lower(s), S_doi_label) THEN lstrip(drop(s, Len(S_doi_label))) ELSE s

normalize_doi(doi) ==
    IF doi = <<>> THEN <<>> ELSE sub_doi_label(sub_resolver(lower(strip(doi))))

\* The number of digits s starts with.
RECURSIVE leading_digits(_)
leading_digits(s) ==
    IF s # <<>> /\ isdigit(Head(s)) THEN 1 + leading_digits(Tail(s)) ELSE 0

\* re.match(r"^10\.\d{4,9}/\S+$", s) is not None
matches_doi_shape(s) ==
    /\ startswith(s, S_ten_dot)
    /\ LET rest == drop(s, Len(S_ten_dot))
           n == leading_digits(rest)
       IN  /\ n >= DoiMinDigits
           /\ n <= DoiMaxDigits
           /\ Len(rest) >= n + 2
           /\ rest[n + 1] = "/"
           /\ \A i \in (n + 2)..Len(rest) : ~isspace(rest[i])

is_valid_doi(doi) ==
    LET d == normalize_doi(doi)
    IN  d # <<>> /\ matches_doi_shape(d)

(***************************************************************************)
(* enricher.py: text normalisation, title similarity, corroboration.       *)
(***************************************************************************)
\* re.sub(r"\s+", " ", text)
RECURSIVE collapse_spaces(_)
collapse_spaces(s) ==
    IF s = <<>> THEN <<>>
    ELSE IF isspace(Head(s)) THEN <<" ">> \o collapse_spaces(lstrip(s))
    ELSE <<Head(s)>> \o collapse_spaces(Tail(s))

normalize_text(text) ==
    IF text = <<>> THEN <<>> ELSE lower(strip(collapse_spaces(unidecode(text))))

\* re.sub(r"[^a-z0-9]", "", author) after normalize_text
normalize_author(author) ==
    IF author = <<>> THEN <<>>
    ELSE SelectSeq(normalize_text(author), LAMBDA c : c \in Range(Letters) \cup DigitSet)

\* re.sub(r"[^0-9\-]", "", pages)
normalize_pages(pages) ==
    IF pages = <<>> THEN <<>> ELSE SelectSeq(pages, LAMBDA c : c \in DigitSet \cup {"-"})

\* s.split(sep): the list of the pieces of s between the occurrences of sep.
RECURSIVE split(_, _)
split(s, sep) ==
    IF find(s, sep) = 0 THEN <<s>>
    ELSE <<SubSeq(s, 1, find(s, sep) - 1)>> \o split(drop(s, find(s, sep) + Len(sep) - 1), sep)

get_authors_list(entry) ==
    LET author_str == IF Get(entry, "author") # <<>> THEN Get(entry, "author")
                      ELSE Get(entry, "editor")
        authors == split(author_str, S_AND)
    IN  List([n \in DOMAIN authors |-> strip(split_first(authors[n], <<",">>))])

\* item.get(key, default) on a candidate record of the response.
ItemGet(item, key, default) == IF key \in DOMAIN item THEN item[key] ELSE default

DateKeys == <<"issued", "published-print", "published-online">>

\* extract_item_year: item[key] stands for item[key]["date-parts"].
extract_item_year(item) ==
    LET dated == SelectSeq(DateKeys, LAMBDA key :
                     LET date_parts == ItemGet(item, key, <<>>)
                     IN  date_parts # <<>> /\ date_parts[1] # <<>>)
    IN  IF dated = <<>> THEN <<>> ELSE str(item[dated[1]][1][1])

\* The length of the common run of a from i and b from j, inside a[..ahi], b[..bhi].
RECURSIVE common_run(_, _, _, _, _, _)
common_run(a, b, i, j, ahi, bhi) ==
    IF i <= ahi /\ j <= bhi /\ a[i] = b[j] THEN 1 + common_run(a, b, i + 1, j + 1, ahi, bhi)
    ELSE 0

\* SequenceMatcher.find_longest_match on a[alo..ahi], b[blo..bhi]: the longest
\* block, the earliest in a, then the earliest in b.
find_longest_match(a, b, alo, ahi, blo, bhi) ==
    LET cells == {<<i, j, common_run(a, b, i, j, ahi, bhi)>> : i \in alo..ahi, j \in blo..bhi}
        sizes == {c[3] : c \in cells} \cup {0}
        k == CHOOSE n \in sizes : \A m \in sizes : m <= n
        longest == {c \in cells : c[3] = k}
        i == CHOOSE x \in {c[1] : c \in longest} : \A c \in longest : x <= c[1]
        j == CHOOSE y \in {c[2] : c \in longest} :
                 <<i, y, k>> \in longest /\ \A c \in longest : c[1] = i => y <= c[2]
    IN  IF k = 0 THEN [i |-> alo, j |-> blo, k |-> 0] ELSE [i |-> i, j |-> j, k |-> k]

\* The sum of the sizes of SequenceMatcher.get_matching_blocks.
RECURSIVE matching_size(_, _, _, _, _, _)
matching_size(a, b, alo, ahi, blo, bhi) ==
    LET m == find_longest_match(a, b, alo, ahi, blo, bhi)
    IN  IF m.k = 0 THEN 0
        ELSE m.k + matching_size(a, b, alo, m.i - 1, blo, m.j - 1)
                 + matching_size(a, b, m.i + m.k, ahi, m.j + m.k, bhi)

\* SequenceMatcher(None, a, b).ratio() = 2.0 * matches / (len(a) + len(b)), 1.0
\* for two empty strings; kept as the fraction num / den.
ratio(a, b) ==
    IF Len(a) + Len(b) = 0 THEN [num |-> 1, den |-> 1]
    ELSE [num |-> 2 * matching_size(a, b, 1, Len(a), 1, Len(b)), den |-> Len(a) + Len(b)]

title_similarity(a, b) == ratio(normalize_text(a), normalize_text(b))

\* The threshold 0.85 as a fraction, and the order of scores.
ThresholdNum == 85
ThresholdDen == 100
BelowThreshold(score) == score.num * ThresholdDen < ThresholdNum * score.den

\* A slip: the comparison with best_score is left out, the last survivor wins.
Greater_unchecked(s, t) == TRUE

Greater(s, t) == s.num * t.den > t.num * s.den

normalize_container(item) ==
    LET container == ItemGet(item, "container-title", <<<<>>>>)
    IN  IF container # <<>> THEN normalize_text(container[1]) ELSE <<>>

\* item_fields_match(entry, item)[0]
item_fields_match(entry, item) ==
    LET entry_journal == IF normalize_text(Get(entry, "journal")) # <<>>
                         THEN normalize_text(Get(entry, "journal"))
                         ELSE normalize_text(Get(entry, "booktitle"))
        item_journal == normalize_container(item)
        entry_volume == normalize_text(Get(entry, "volume"))
        item_volume == normalize_text(ItemGet(item, "volume", <<>>))
        entry_issue == normalize_text(Get(entry, "number"))
        item_issue == normalize_text(ItemGet(item, "issue", <<>>))
        entry_pages == normalize_pages(Get(entry, "pages"))
        item_pages == normalize_pages(ItemGet(item, "page", <<>>))
    IN  /\ ~(entry_journal # <<>> /\ item_journal # <<>> /\ entry_journal # item_journal)
        /\ ~(entry_volume # <<>> /\ item_volume # <<>> /\ entry_volume # item_volume)
        /\ ~(entry_issue # <<>> /\ item_issue # <<>> /\ entry_issue # item_issue)
        /\ ~(entry_pages # <<>> /\ item_pages # <<>> /\ entry_pages # item_pages)

item_has_author_match(item, authors) ==
    LET item_authors == ItemGet(item, "author", <<>>)
        normalized_authors == {normalize_author(authors[n]) :
                                  n \in {m \in DOMAIN authors : authors[m] # <<>>}}
    IN  \/ authors = <<>>
        \/ item_authors = <<>>
        \/ \E n \in DOMAIN item_authors :
               LET family == normalize_author(ItemGet(item_authors[n], "family", <<>>))
               IN  family # <<>> /\ family \in normalized_authors

\* item.get("title", [""])[0] raises IndexError on an empty title list.
item_raises(item) == "title" \in DOMAIN item /\ item["title"] = <<>>

found_title(item) == ItemGet(item, "title", <<<<>>>>)[1]

\* A slip: the title-similarity check is left out.
title_too_far_unchecked(score) == FALSE

\* search_doi line 153: score < 0.85
title_too_far(score) == BelowThreshold(score)

\* The checks of the loop body of search_doi that end in `continue`.
item_passes(score, authors, year, entry, item) ==
    /\ ~title_too_far(score)
    /\ item_has_author_match(item, authors)
    /\ ~(year # <<>> /\ extract_item_year(item) # <<>> /\ year # extract_item_year(item))
    /\ item_fields_match(entry, item)

\* A slip: a candidate whose identifier is missing or malformed is passed
\* over in the loop, so the next best one is taken.
RECURSIVE best_from_with_valid_doi(_, _, _, _, _, _, _)
best_from_with_valid_doi(title, authors, year, entry, items, n, best) ==
    IF n > Len(items) THEN best
    ELSE LET score == title_similarity(title, found_title(items[n]))
             better == /\ item_passes(score, authors, year, entry, items[n])
                       /\ Greater(score, best.score)
                       /\ ItemGet(items[n], "DOI", <<>>) # <<>>
                       /\ is_valid_doi(items[n]["DOI"])
         IN  best_from_with_valid_doi(title, authors, year, entry, items, n + 1,
                       [match |-> IF better THEN n ELSE best.match,
                        score |-> IF better THEN score ELSE best.score])

\* The for loop of search_doi from item n on: the index of best_match (0 for
\* None) and best_score.
RECURSIVE best_from(_, _, _, _, _, _, _)
best_from(title, authors, year, entry, items, n, best) ==
    IF n > Len(items) THEN best
    ELSE LET score == title_similarity(title, found_title(items[n]))
             better == item_passes(score, authors, year, entry, items[n])
                       /\ Greater(score, best.score)
         IN  best_from(title, authors, year, entry, items, n + 1,
                       [match |-> IF better THEN n ELSE best.match,
                        score |-> IF better THEN score ELSE best.score])

\* A slip: the identifier is handed back as the source gave it.
accepted_doi_raw(best_match) ==
    LET doi == ItemGet(best_match, "DOI", <<>>)
    IN  IF doi # <<>> THEN doi ELSE <<>>

\* search_doi lines 176-180: the identifier returned for best_match, <<>> for None.
accepted_doi(best_match) ==
    LET doi == ItemGet(best_match, "DOI", <<>>)
    IN  IF doi # <<>> /\ is_valid_doi(doi) THEN normalize_doi(doi) ELSE <<>>

NoResponse == [kind |-> "none"]
StatusOK == 200

\* A slip: the status of the response is not looked at.
search_doi_any_status(title, authors, year, entry, response) ==
    LET none == [doi |-> <<>>, requested |-> title # <<>>, raised |-> FALSE, match |-> 0,
                 score |-> [num |-> 0, den |-> 1]]
        returned(best) ==
            IF best.match = 0 \/ DOMAIN response.items[best.match] = {} THEN none
            ELSE [none EXCEPT !.doi = accepted_doi(response.items[best.match]),
                              !.match = best.match, !.score = best.score]
    IN  IF title = <<>> THEN none
        ELSE IF response.kind = "exception" THEN [none EXCEPT !.raised = TRUE]
        ELSE IF response.items = <<>> THEN none
        ELSE IF \E n \in DOMAIN response.items : item_raises(response.items[n])
             THEN [none EXCEPT !.raised = TRUE]
        ELSE returned(best_from(title, authors, year, entry, response.items, 1,
                                [match |-> 0, score |-> [num |-> 0, den |-> 1]]))

\* search_doi(title, authors, year, entry): the value returned (<<>> for
\* None), with the request made or not, the exception swallowed or not, and
\* the index of best_match.
search_doi(title, authors, year, entry, response) ==
    LET none == [doi |-> <<>>, requested |-> title # <<>>, raised |-> FALSE, match |-> 0,
                 score |-> [num |-> 0, den |-> 1]]
        returned(best) ==
            IF best.match = 0 \/ DOMAIN response.items[best.match] = {} THEN none
            ELSE [none EXCEPT !.doi = accepted_doi(response.items[best.match]),
                              !.match = best.match, !.score = best.score]
    IN  IF title = <<>> THEN none
        ELSE IF response.kind = "exception" THEN [none EXCEPT !.raised = TRUE]
        ELSE IF response.status # StatusOK \/ response.items = <<>> THEN none
        ELSE IF \E n \in DOMAIN response.items : item_raises(response.items[n])
             THEN [none EXCEPT !.raised = TRUE]
        ELSE returned(best_from(title, authors, year, entry, response.items, 1,
                                [match |-> 0, score |-> [num |-> 0, den |-> 1]]))

\* re.search(r"\d{4}", year_raw): the first run of four digits, "" if none.
first_year(year_raw) ==
    LET at == {i \in 1..(Len(year_raw) - 3) : \A k \in 0..3 : isdigit(year_raw[i + k])}
    IN  IF at = {} THEN <<>>
        ELSE LET i == CHOOSE x \in at : \A y \in at : x <= y
             IN  SubSeq(year_raw, i, i + 3)

\* Whether the loop of enrich_database searches for the entry.
lacks_doi(entry) == "doi" \notin DOMAIN entry \/ strip(entry["doi"]) = <<>>

(***************************************************************************)
(* Inputs.                                                                 *)
(***************************************************************************)
X1 == <<"x","1">>
X2 == <<"x","2">>
X3 == <<"x","3">>
X4 == <<"x","4">>
Keys == <<X1, X2, X3, X4>>

D_ABC == <<"1","0",".","1","/","A","B","C">>
D_abc == <<"1","0",".","1","/","a","b","c">>
D_label == <<"d","o","i",":">> \o D_abc
D_url == <<"h","t","t","p","s",":","/","/","d","o","i",".","o","r","g","/">> \o D_abc
D_xyz == <<"1","0",".","2","/","x","y","z">>
T_widgets == <<"A"," ","S","t","u","d","y"," ","o","f"," ","W","i","d","g","e","t","s">>
Y_2020 == <<"2","0","2","0">>
A_first == <<"J","o","h","n"," ","S","m","i","t","h">>
A_last == <<"S","m","i","t","h",","," ","J","."," ","a","n","d"," ","D","o","e",","," ","A",".">>

\* The fields an entry of the deduplicator's input carries besides its ID.
DedupShapes ==
    { [doi |-> D_ABC],
      [doi |-> D_abc],
      [doi |-> D_label],
      [doi |-> D_url],
      [title |-> T_widgets, author |-> A_first, year |-> Y_2020],
      [title |-> T_widgets, author |-> A_last, year |-> Y_2020, doi |-> D_abc],
      [title |-> T_widgets, author |-> A_last, year |-> Y_2020, doi |-> D_xyz] }

\* The ID lists of length n up to renaming: each ID is one met before or the
\* next fresh one.
RECURSIVE KeyPatterns(_)
KeyPatterns(n) ==
    IF n = 0 THEN {<<>>}
    ELSE {Append(p, k) : p \in KeyPatterns(n - 1), k \in 1..n}

KeyLists(n) ==
    {List([i \in 1..n |-> Keys[p[i]]]) :
        p \in {q \in KeyPatterns(n) :
                  \A i \in 1..n : q[i] = 1 \/ \E j \in 1..(i - 1) : q[j] >= q[i] - 1}}

NoReturn == [op |-> "none"]

(***************************************************************************)
(* The deduplicator, called on a database and again on what it returned.   *)
(***************************************************************************)
InitDedup ==
    /\ pc = "deduplicate_database"
    /\ \E n \in 1..MaxEntries :
         \E ids \in KeyLists(n) :
           \E shapes \in [1..n -> DedupShapes] :
              input = List([i \in 1..n |-> Put(shapes[i], "ID", ids[i])])
    /\ prev = input
    /\ entries = input
    /\ ret = NoReturn
    /\ runs = 0

Deduplicate ==
    /\ pc \in {"deduplicate_database", "deduplicate_database again"}
    /\ LET r == deduplicate_database(entries)
       IN  /\ entries' = r.entries
           /\ ret' = [op |-> "deduplicate_database", second |-> r.second,
                      removed |-> r.removed, merges |-> r.merges]
    /\ prev' = entries
    /\ runs' = runs + 1
    /\ pc' = IF pc = "deduplicate_database" THEN "deduplicate_database again" ELSE "returned"
    /\ UNCHANGED input

NextDedup == Deduplicate

SpecDedup == InitDedup /\ [][NextDedup]_vars

(***************************************************************************)
(* merge_entries, called on a list of entries.                             *)
(***************************************************************************)
T_short == <<"T">>

MergeShapes ==
    { [ID |-> X1, title |-> T_widgets, doi |-> <<>>],
      [ID |-> X2, doi |-> D_abc, year |-> Y_2020],
      [ID |-> X3, title |-> <<>>, doi |-> D_xyz],
      [ID |-> X4, title |-> T_short, author |-> A_first],
      [ID |-> X1, year |-> <<>>, author |-> A_last] }

InitMerge ==
    /\ pc = "merge_entries"
    /\ \E n \in 1..MaxEntries : input \in [1..n -> MergeShapes]
    /\ prev = input
    /\ entries = input
    /\ ret = NoReturn
    /\ runs = 0

\* merge_entries(entries): the first dict of the list is mutated and returned.
MergeEntries ==
    /\ pc = "merge_entries"
    /\ LET master == merge_entries(entries)
       IN  /\ entries' = [entries EXCEPT ![1] = master]
           /\ ret' = [op |-> "merge_entries", master |-> master]
    /\ prev' = entries
    /\ runs' = runs + 1
    /\ pc' = "returned"
    /\ UNCHANGED input

NextMerge == MergeEntries

SpecMerge == InitMerge /\ [][NextMerge]_vars

\* C4: merge_entries never replaces a non-empty value of the master, its ID
\* included; only fields absent or empty on the master are written, and the
\* other members are left as they were.
C4_MasterValuesKept ==
    (pc = "returned" /\ ret.op = "merge_entries") =>
        /\ ret.master = entries[1]
        /\ \A k \in DOMAIN prev[1] :
               prev[1][k] # <<>> => (k \in DOMAIN entries[1] /\ entries[1][k] = prev[1][k])
        /\ \A k \in DOMAIN entries[1] :
               (k \notin DOMAIN prev[1] \/ entries[1][k] # prev[1][k])
                   => (k \notin DOMAIN prev[1] \/ prev[1][k] = <<>>)
        /\ \A i \in 2..Len(entries) : entries[i] = prev[i]

\* C4 witness: a master with a non-empty field that another member holds with
\* another non-empty value, and with an empty field that the merge filled.
C4_Witness ==
    /\ pc = "returned"
    /\ ret.op = "merge_entries"
    /\ Len(prev) = 3
    /\ \E k \in DOMAIN prev[1] : \E i \in 2..Len(prev) :
           /\ prev[1][k] # <<>>
           /\ k \in DOMAIN prev[i]
           /\ prev[i][k] # <<>>
           /\ prev[i][k] # prev[1][k]
    /\ \E k \in DOMAIN prev[1] : prev[1][k] = <<>> /\ entries[1][k] # <<>>
    /\ \E k \in DOMAIN entries[1] : k \notin DOMAIN prev[1]

(***************************************************************************)
(* uniquify_keys, called on a database and again on what it returned.      *)
(***************************************************************************)
K == <<"k">>
J == <<"j">>
K_a == <<"k","_","a">>
K_b == <<"k","_","b">>
K_2 == <<"k","_","2">>
KeyPool == {K, J, K_a, K_b, K_2}

\* n entries that all carry the ID k.
Repeated(n) == [i \in 1..n |-> [ID |-> K]]

\* Short lists over the pool, and lists long enough to use up the letters.
UniquifyInputs(n) ==
    {List([i \in 1..n |-> [ID |-> ids[i]]]) : ids \in [1..n -> KeyPool]}
    \cup {List(Repeated(ORD_z - ORD_a + 1 + n)), <<[ID |-> K_2]>> \o Repeated(ORD_z - ORD_a + 1 + n)}

SMITH2020 == <<"s","m","i","t","h","2","0","2","0">>

\* Three entries that all carry the ID smith2020.
ThreeSmiths == <<[ID |-> SMITH2020], [ID |-> SMITH2020], [ID |-> SMITH2020]>>

InitUniquify ==
    /\ pc = "uniquify_keys"
    /\ \E n \in 1..MaxEntries : input \in UniquifyInputs(n) \cup {ThreeSmiths}
    /\ prev = input
    /\ entries = input
    /\ ret = NoReturn
    /\ runs = 0

UniquifyKeys ==
    /\ pc \in {"uniquify_keys", "uniquify_keys again"}
    /\ LET r == uniquify_keys(entries)
       IN  /\ entries' = r.entries
           /\ ret' = [op |-> "uniquify_keys", renamed_count |-> r.renamed_count]
    /\ prev' = entries
    /\ runs' = runs + 1
    /\ pc' = IF pc = "uniquify_keys" THEN "uniquify_keys again" ELSE "returned"
    /\ UNCHANGED input

NextUniquify == UniquifyKeys

SpecUniquify == InitUniquify /\ [][NextUniquify]_vars

\* C3: after uniquify_keys returns, all entry IDs are pairwise distinct,
\* whatever the input list of IDs.
C3_KeysPairwiseDistinct ==
    (pc \in {"uniquify_keys again", "returned"} /\ ret.op = "uniquify_keys") =>
        Distinct(IdsOf(entries))

\* C3 witness: a first run on an input that holds an ID twice and also an ID
\* that already is a suffixed form of it.
C3_Witness ==
    /\ pc = "uniquify_keys again"
    /\ Len(prev) = 3
    /\ prev[1]["ID"] = K
    /\ prev[2]["ID"] = K
    /\ prev[3]["ID"] = K_a
    /\ IdsOf(entries) = <<K, K_a, <<"k","_","a","_","a">>>>

\* C3 second witness: the letters were used up and a number was taken.
C3_WitnessNumeric ==
    /\ pc = "uniquify_keys again"
    /\ \E i \in DOMAIN entries : entries[i]["ID"] = <<"k","_","3">>

\* C5: on pairwise-distinct IDs uniquify_keys changes no ID, keeps the order
\* and returns the count 0; so a run on its own output renames nothing.
C5_NoOpOnDistinctKeys ==
    /\ (pc = "uniquify_keys again" /\ Distinct(IdsOf(prev)))
           => (entries = prev /\ ret.renamed_count = 0)
    /\ pc = "returned" => (entries = prev /\ ret.renamed_count = 0)

\* C5 witness: a second run, after a first run that renamed.
C5_Witness ==
    /\ pc = "returned"
    /\ entries # input
    /\ Len(input) = 3

\* C5 second witness: a first run on three pairwise-distinct IDs, one of them
\* a suffixed form of another.
C5_WitnessDistinct ==
    /\ pc = "uniquify_keys again"
    /\ IdsOf(prev) = <<K, K_a, J>>

\* The n-th candidate for a repeated ID: ID_a .. ID_z, then ID_2, ID_3, ...
Candidate(id, n) ==
    IF n <= 26 THEN id \o <<"_", Letters[n]>> ELSE id \o <<"_">> \o str(n - 25)

\* The IDs given to the entries before the i-th by the run.
SeenBefore(i) == {entries[j]["ID"] : j \in 1..(i - 1)}

\* The entries the run renamed.
Renamed == {i \in DOMAIN prev : prev[i]["ID"] \in SeenBefore(i)}

\* C11: uniquify_keys goes left to right; an ID not seen yet is kept, an ID
\* already seen is replaced by the first of ID_a .. ID_z, ID_2, ID_3, ... not
\* seen yet, and the count is the number of entries renamed; so three entries
\* smith2020 become smith2020, smith2020_a, smith2020_b with count 2.
C11_RenamedToFirstFreeCandidate ==
    (pc \in {"uniquify_keys again", "returned"} /\ ret.op = "uniquify_keys") =>
        /\ Len(entries) = Len(prev)
        /\ \A i \in DOMAIN prev :
               IF i \in Renamed
               THEN \E n \in 1..(Len(prev) + 26) :
                        /\ entries[i]["ID"] = Candidate(prev[i]["ID"], n)
                        /\ Candidate(prev[i]["ID"], n) \notin SeenBefore(i)
                        /\ \A m \in 1..(n - 1) : Candidate(prev[i]["ID"], m) \in SeenBefore(i)
               ELSE entries[i] = prev[i]
        /\ ret.renamed_count = Cardinality(Renamed)
        /\ prev = ThreeSmiths =>
               /\ IdsOf(entries) = <<SMITH2020, SMITH2020 \o <<"_","a">>, SMITH2020 \o <<"_","b">>>>
               /\ ret.renamed_count = 2

\* C11 witness: the run on three entries smith2020 has returned.
C11_Witness ==
    /\ pc = "uniquify_keys again"
    /\ prev = ThreeSmiths
    /\ ret.renamed_count = 2

\* C11 second witness: the letters were used up although the input held no
\* numbered ID, and the first number taken is 2.
C11_WitnessNumeric ==
    /\ pc = "uniquify_keys again"
    /\ \A i \in DOMAIN prev : prev[i]["ID"] = K
    /\ Len(prev) >= 28
    /\ entries[28]["ID"] = K_2

(***************************************************************************)
(* enrich_database: its loop visits the entries in order; for an entry     *)
(* without a DOI it calls search_doi, whose request gets some response.    *)
(***************************************************************************)
MaxItems == 2

T_w == <<"w","i","d","g","e","t","s">>
T_W == <<"W","i","d","g","e","t","s">>
T_z == <<"w","i","d","g","e","t","z">>
T_g == <<"g","a","d","g","e","t","s">>
A_smith == <<"S","m","i","t","h",","," ","J","o","h","n">>
F_smith == <<"S","m","i","t","h">>
F_jones == <<"J","o","n","e","s">>
D_good == <<"1","0",".","1","2","3","4","/","a","b">>
D_good_url == <<"h","t","t","p","s",":","/","/","d","o","i",".","o","r","g","/",
                "1","0",".","1","2","3","4","/","C","D">>
D_low == <<"1","0",".","1","2","3","4","/","l","o">>
D_other == <<"1","0",".","1","2","3","4","/","j","o">>
D_old == <<"1","0",".","1","2","3","4","/","o","l","d">>
V_1 == <<"1">>
V_2 == <<"2">>

EnrichEntries ==
    { [ID |-> X1, title |-> T_w, author |-> A_smith, year |-> Y_2020],
      [ID |-> X2, title |-> T_w],
      [ID |-> X3, title |-> T_W, doi |-> D_good],
      [ID |-> X4, title |-> T_w, editor |-> A_smith, volume |-> V_1],
      [ID |-> X1, year |-> Y_2020] }

GoodItem ==
    [title |-> <<T_w>>, author |-> <<[family |-> F_smith]>>, issued |-> <<<<2020>>>>,
     volume |-> V_1, DOI |-> D_good]

Items ==
    { GoodItem,
      [title |-> <<T_z>>, author |-> <<[family |-> F_smith]>>, DOI |-> D_good_url],
      [title |-> <<T_g>>, author |-> <<[family |-> F_smith]>>, issued |-> <<<<2020>>>>,
       DOI |-> D_low],
      [title |-> <<T_w>>, author |-> <<[family |-> F_jones]>>, DOI |-> D_other],
      [title |-> <<T_W>>, DOI |-> D_abc],
      [title |-> <<T_w>>, author |-> <<[family |-> F_smith]>>],
      [title |-> <<>>, DOI |-> D_good],
      [title |-> <<T_w>>, author |-> <<[family |-> F_smith]>>, issued |-> <<<<1999>>>>,
       volume |-> V_2, DOI |-> D_old] }

\* An entry and two candidates whose titles are at ratio 0.90 (36/40) and
\* 0.95 (38/40) from its title; the nearer one names another author.
T_theory == <<"n","e","u","r","a","l"," ","w","i","d","g","e","t"," ","t","h","e","o","r","y">>
T_90 == <<"n","e","u","r","a","l"," ","w","i","d","g","e","t"," ","t","h","e","o","z","z">>
T_95 == <<"n","e","u","r","a","l"," ","w","i","d","g","e","t"," ","t","h","e","o","r","i">>
D_90 == <<"1","0",".","1","2","3","4","/","9","0">>
D_95 == <<"1","0",".","1","2","3","4","/","9","5">>
TheoryEntry == [ID |-> X1, title |-> T_theory, author |-> A_smith]
TheoryItems ==
    << [title |-> <<T_90>>, author |-> <<[family |-> F_smith]>>, DOI |-> D_90],
       [title |-> <<T_95>>, author |-> <<[family |-> F_jones]>>, DOI |-> D_95] >>

Responses ==
    {[kind |-> "exception"], [kind |-> "http", status |-> 500, items |-> <<>>]}
    \cup {[kind |-> "http", status |-> StatusOK, items |-> items] :
             items \in UNION {[1..n -> Items] : n \in 0..MaxItems}}
    \cup {[kind |-> "http", status |-> StatusOK, items |-> TheoryItems]}
    \cup {[kind |-> "http", status |-> 500, items |-> <<GoodItem>>]}

InitEnrich ==
    /\ pc = "enrich_database"
    /\ \E n \in 1..2 : input \in [1..n -> EnrichEntries] \cup {<<TheoryEntry>>}
    /\ prev = input
    /\ entries = input
    /\ ret = [op |-> "enrich_database", items_modified |-> <<>>, last |-> NoResponse]
    /\ runs = 0

\* One pass of the for loop of enrich_database, on entry runs + 1.
EnrichEntry ==
    /\ pc = "enrich_database"
    /\ runs < Len(entries)
    /\ \E response \in Responses :
         LET entry == entries[runs + 1]
             title == Get(entry, "title")
         IN  \E authors \in {get_authors_list(entry)},
                year \in {first_year(Get(entry, "year"))} :
             \E found \in {search_doi(title, authors, year, entry, response)} :
             IF lacks_doi(entry)
             THEN /\ (~found.requested => response = [kind |-> "exception"])
                  /\ entries' = IF found.doi # <<>>
                                THEN [entries EXCEPT ![runs + 1] = Put(entry, "doi", found.doi)]
                                ELSE entries
                  /\ ret' = [op |-> "enrich_database",
                             items_modified |->
                                 IF found.doi # <<>>
                                 THEN Append(ret.items_modified, <<entry["ID"], found.doi>>)
                                 ELSE ret.items_modified,
                             last |-> [kind |-> "searched", title |-> title, authors |-> authors,
                                       year |-> year,
                                       response |-> IF found.requested THEN response
                                                    ELSE NoResponse,
                                       found |-> found]]
             ELSE /\ response = [kind |-> "exception"]
                  /\ entries' = entries
                  /\ ret' = [ret EXCEPT !.last = [kind |-> "skipped"]]
    /\ prev' = entries
    /\ runs' = runs + 1
    /\ pc' = "enrich_database: entry done"
    /\ UNCHANGED input

\* The loop goes on to the next entry: the locals of the pass are gone.
EnrichNext ==
    /\ pc = "enrich_database: entry done"
    /\ runs < Len(entries)
    /\ pc' = "enrich_database"
    /\ ret' = [ret EXCEPT !.last = NoResponse]
    /\ prev' = entries
    /\ UNCHANGED <<input, entries, runs>>

\* The loop is over: enrich_database returns (database, items_modified, verify_log).
EnrichReturn ==
    /\ pc = "enrich_database: entry done"
    /\ runs = Len(entries)
    /\ pc' = "returned"
    /\ UNCHANGED <<input, prev, entries, ret, runs>>

NextEnrich == EnrichEntry \/ EnrichNext \/ EnrichReturn

SpecEnrich == InitEnrich /\ [][NextEnrich]_vars

Searched == ret.op = "enrich_database" /\ ret.last.kind = "searched"

\* The candidate search_doi took as best_match in the last search.
BestMatch == ret.last.response.items[ret.last.found.match]

\* C7: search_doi never returns the identifier of a candidate whose
\* title-similarity ratio to the entry title is below 0.85.
C7_NoMatchBelowThreshold ==
    (Searched /\ ret.last.found.doi # <<>>) =>
        /\ ret.last.found.match \in DOMAIN ret.last.response.items
        /\ ret.last.found.doi = normalize_doi(BestMatch["DOI"])
        /\ ~BelowThreshold(ratio(normalize_text(ret.last.title),
                                 normalize_text(BestMatch["title"][1])))

\* C7 witness: an identifier is returned from a list that also holds a
\* candidate below the threshold whose other fields all match.
C7_Witness ==
    /\ Searched
    /\ ret.last.found.doi # <<>>
    /\ \E n \in DOMAIN ret.last.response.items :
           LET item == ret.last.response.items[n]
           IN  /\ BelowThreshold(ratio(normalize_text(ret.last.title),
                                       normalize_text(item["title"][1])))
               /\ item_has_author_match(item, ret.last.authors)
               /\ extract_item_year(item) = ret.last.year
               /\ is_valid_doi(item["DOI"])

\* C8: every identifier search_doi returns, and so every doi enrich_database
\* writes into an entry or into items_modified, is normalized and has the
\* shape 10.<4-9 digits>/<non-whitespace>; a selected candidate whose
\* identifier is missing or malformed yields none.
C8_ReturnedDoiWellFormed ==
    /\ Searched =>
          /\ ret.last.found.doi # <<>> =>
                 /\ matches_doi_shape(ret.last.found.doi)
                 /\ normalize_doi(ret.last.found.doi) = ret.last.found.doi
          /\ (ret.last.found.match # 0
              /\ ("DOI" \notin DOMAIN BestMatch \/ ~is_valid_doi(BestMatch["DOI"])))
                 => ret.last.found.doi = <<>>
    /\ ret.op = "enrich_database" =>
          /\ \A n \in DOMAIN ret.items_modified :
                 /\ matches_doi_shape(ret.items_modified[n][2])
                 /\ normalize_doi(ret.items_modified[n][2]) = ret.items_modified[n][2]
          /\ \A i \in DOMAIN entries :
                 Get(entries[i], "doi") # Get(input[i], "doi")
                     => /\ matches_doi_shape(entries[i]["doi"])
                        /\ normalize_doi(entries[i]["doi"]) = entries[i]["doi"]
                        /\ \E n \in DOMAIN ret.items_modified :
                               ret.items_modified[n] = <<entries[i]["ID"], entries[i]["doi"]>>

\* C8 witness: enrich_database returned; the search for its first entry wrote
\* nothing, and the identifier written into its second entry is the normalized
\* form of one the source gave with a resolver prefix and capitals.
C8_Witness ==
    /\ pc = "returned"
    /\ ret.op = "enrich_database"
    /\ Len(entries) = 2
    /\ "doi" \notin DOMAIN entries[1]
    /\ Searched
    /\ ret.last.found.doi # <<>>
    /\ BestMatch["DOI"] # ret.last.found.doi
    /\ entries[2]["doi"] = ret.last.found.doi

\* C8 second witness: the selected candidate carries a malformed identifier.
C8_WitnessMalformed ==
    /\ Searched
    /\ ret.last.found.match # 0
    /\ "DOI" \in DOMAIN BestMatch
    /\ ~is_valid_doi(BestMatch["DOI"])
    /\ ret.last.found.doi = <<>>

\* The entry the last pass of the loop of enrich_database was on.
SearchedEntry == prev[runs]

\* The candidates of the last response, if search_doi got to rank them.
Ranked ==
    /\ Searched
    /\ ret.last.response.kind = "http"
    /\ ret.last.response.status = StatusOK
    /\ ~ret.last.found.raised

Candidates == ret.last.response.items

ScoreOf(n) == title_similarity(ret.last.title, Candidates[n]["title"][1])

\* The title similarities of the candidates, in the order of the list.
Scores == List([n \in DOMAIN Candidates |-> ScoreOf(n)])

\* The candidates that pass the title, author, year and field checks, given
\* their title similarities.
SurvivorsAt(scores) ==
    {n \in DOMAIN Candidates :
        item_passes(scores[n], ret.last.authors, ret.last.year, SearchedEntry, Candidates[n])}

\* The candidates that pass the title, author, year and field checks.
Survivors ==
    {n \in DOMAIN Candidates :
        item_passes(ScoreOf(n), ret.last.authors, ret.last.year, SearchedEntry, Candidates[n])}

\* C12: search_doi selects, among the candidates that pass all checks, one of
\* the highest title similarity; a rejected candidate is never selected,
\* however high its score; so of [0.90 with the entry's author, 0.95 with
\* another author] the first is selected.
C12_BestSurvivorSelected ==
    Ranked =>
        \E scores \in {Scores} : \E survivors \in {SurvivorsAt(scores)} :
            /\ (ret.last.found.match = 0) <=> (survivors = {})
            /\ ret.last.found.match # 0 =>
                   /\ ret.last.found.match \in survivors
                   /\ \A n \in survivors :
                          scores[n].num * scores[ret.last.found.match].den
                              <= scores[ret.last.found.match].num * scores[n].den
            /\ (SearchedEntry = TheoryEntry /\ Candidates = TheoryItems) =>
                   /\ scores[1] = [num |-> 36, den |-> 40]
                   /\ scores[2] = [num |-> 38, den |-> 40]
                   /\ ret.last.found.match = 1
                   /\ ret.last.found.doi = D_90

\* C12 witness: the search on the entry with the 0.90 and 0.95 candidates
\* returned an identifier.
C12_Witness ==
    /\ Ranked
    /\ SearchedEntry = TheoryEntry
    /\ Candidates = TheoryItems
    /\ ret.last.found.doi # <<>>

\* C12 second witness: two candidates survive with different scores and the
\* better one, second in the list, is selected.
C12_WitnessRanked ==
    /\ Ranked
    /\ Cardinality(Survivors) = 2
    /\ ret.last.found.match = 2
    /\ ScoreOf(1) # ScoreOf(2)

\* The search of the last pass failed: an exception or timeout of the
\* request, a status other than 200, or a payload that made the code raise.
SearchFailed ==
    /\ Searched
    /\ \/ ret.last.response.kind = "exception"
       \/ ret.last.response.kind = "http" /\ ret.last.response.status # StatusOK
       \/ ret.last.found.raised

\* What a pass of the loop may write: nothing, or the doi of its own entry,
\* with the matching record appended to items_modified.
PassWritesOnlyAcceptedDoi ==
    LET i == runs + 1
        found == ret'.last.found
    IN  IF ret'.last.kind = "searched" /\ found.doi # <<>>
        THEN /\ found.match \in DOMAIN ret'.last.response.items
             /\ ret'.last.response.status = StatusOK
             /\ is_valid_doi(ret'.last.response.items[found.match]["DOI"])
             /\ "doi" \notin DOMAIN entries[i] \/ strip(entries[i]["doi"]) = <<>>
             /\ entries' = [entries EXCEPT
                               ![i] = [k \in DOMAIN entries[i] \cup {"doi"} |->
                                          IF k = "doi" THEN found.doi ELSE entries[i][k]]]
             /\ ret'.items_modified = Append(ret.items_modified, <<entries[i]["ID"], found.doi>>)
        ELSE entries' = entries /\ ret'.items_modified = ret.items_modified

\* C13: a failed search (exception, timeout, status other than 200, malformed
\* payload) yields no identifier, leaves the entry and items_modified as they
\* were, and the loop goes on to the end of the list; a pass writes nothing
\* but the doi of its entry, and only an accepted candidate's.
C13_FailedSearchLeavesEntryAndLoopGoesOn ==
    /\ [](SearchFailed => ret.last.found.doi = <<>>)
    /\ [](SearchFailed => (entries = prev /\ pc \in {"enrich_database: entry done", "returned"}))
    /\ []((pc = "returned" /\ ret.op = "enrich_database") => runs = Len(entries))
    /\ [][pc = "enrich_database" => PassWritesOnlyAcceptedDoi]_vars
    /\ [][pc # "enrich_database" => entries' = entries]_vars

\* C13 witness: the search for the first of two entries failed on a payload
\* with a malformed candidate after an acceptable one, and the run went on
\* to return with the first entry as it was.
C13_Witness ==
    /\ pc = "enrich_database: entry done"
    /\ runs = 1
    /\ Len(entries) = 2
    /\ SearchFailed
    /\ ret.last.found.raised
    /\ ret.last.response.kind = "http"
    /\ ret.last.response.items[1] = GoodItem
    /\ entries[1] = [ID |-> X1, title |-> T_w, author |-> A_smith, year |-> Y_2020]
    /\ ret.items_modified = <<>>

\* C13 second witness: a run over two entries returned with nothing written
\* to the first and an identifier written to the second.
C13_WitnessNextEntry ==
    /\ pc = "returned"
    /\ ret.op = "enrich_database"
    /\ Len(entries) = 2
    /\ entries[1] = input[1]
    /\ lacks_doi(entries[1])
    /\ Get(entries[1], "title") # <<>>
    /\ lacks_doi(input[2])
    /\ "doi" \in DOMAIN entries[2]
    /\ ret.items_modified = <<<<entries[2]["ID"], entries[2]["doi"]>>>>

\* The entry of the last pass has no authors: author and editor are both
\* absent or empty.
EntryHasNoAuthors ==
    Get(SearchedEntry, "author") = <<>> /\ Get(SearchedEntry, "editor") = <<>>

\* Candidate n names a surname that is, normalized, one of the entry's.
SurnameShared(n) ==
    \E a \in DOMAIN ItemGet(Candidates[n], "author", <<>>) :
        \E e \in DOMAIN ret.last.authors :
            /\ normalize_author(ret.last.authors[e]) # <<>>
            /\ normalize_author(ItemGet(Candidates[n]["author"][a], "family", <<>>))
                   = normalize_author(ret.last.authors[e])

\* Candidate n passes the checks other than the author check.
PassesOtherChecks(n) ==
    /\ ~BelowThreshold(ScoreOf(n))
    /\ ~(/\ ret.last.year # <<>>
          /\ extract_item_year(Candidates[n]) # <<>>
          /\ ret.last.year # extract_item_year(Candidates[n]))
    /\ item_fields_match(SearchedEntry, Candidates[n])

\* C14: in a search made from enrich_database, a sole candidate that passes
\* the other checks is selected exactly when the entry has no authors or the
\* candidate names a surname that equals one of the entry's; a candidate
\* that lists no authors is rejected when the entry has authors.
C14_AuthorCorroboration ==
    (Ranked /\ Len(Candidates) = 1 /\ PassesOtherChecks(1)) =>
        ((ret.last.found.match = 1) <=> (EntryHasNoAuthors \/ SurnameShared(1)))

\* C14, its first half alone: an entry without authors lets a sole candidate
\* that passes the other checks through.
C14_NoAuthorsPassAutomatically ==
    (Ranked /\ Len(Candidates) = 1 /\ PassesOtherChecks(1) /\ EntryHasNoAuthors) =>
        ret.last.found.match = 1

\* C14, its second half alone: an entry with authors rejects a sole candidate
\* that shares no surname with it.
C14_AuthorsRequireSharedSurname ==
    (Ranked /\ Len(Candidates) = 1 /\ PassesOtherChecks(1) /\ ~EntryHasNoAuthors
       /\ ~SurnameShared(1)) =>
        ret.last.found.match = 0

\* Candidate n carries an identifier of the valid shape.
HasValidDoi(n) ==
    ItemGet(Candidates[n], "DOI", <<>>) # <<>> /\ is_valid_doi(Candidates[n]["DOI"])

\* C17: search_doi validates the identifier of the highest-scoring survivor
\* only: when that identifier is missing or malformed nothing is returned,
\* also when a lower-scoring survivor carries a valid one.
C17_OnlyBestSurvivorValidated ==
    Ranked =>
        \E scores \in {Scores} : \E survivors \in {SurvivorsAt(scores)} :
            survivors # {} =>
                /\ ret.last.found.match \in survivors
                /\ \A n \in survivors : ~Greater(scores[n], scores[ret.last.found.match])
                /\ ~HasValidDoi(ret.last.found.match) => ret.last.found.doi = <<>>
                /\ HasValidDoi(ret.last.found.match) =>
                       ret.last.found.doi = normalize_doi(BestMatch["DOI"])

\* C17 witness: the best survivor has no valid identifier, a survivor of a
\* lower score has one, and nothing is returned.
C17_Witness ==
    /\ Ranked
    /\ ret.last.found.match # 0
    /\ ~HasValidDoi(ret.last.found.match)
    /\ \E n \in Survivors :
           /\ HasValidDoi(n)
           /\ Greater(ScoreOf(ret.last.found.match), ScoreOf(n))
    /\ ret.last.found.doi = <<>>
    /\ entries = prev

(***************************************************************************)
(* Claims about the deduplicator (under SpecDedup).                        *)
(***************************************************************************)
Tails(merges) == UNION {{merges[n].ids[k] : k \in 2..Len(merges[n].ids)} : n \in DOMAIN merges}

\* The non-empty normalized DOIs the members of a merge carried before the run.
MemberDois(m) ==
    {normalize_doi(Get(prev[PosOf(IdsOf(prev), m.ids[k])], "doi")) : k \in DOMAIN m.ids} \ {<<>>}

AfterFirstRun == pc = "deduplicate_database again"
AfterSecondRun == pc = "returned"
AfterARun == pc \in {"deduplicate_database again", "returned"}

\* C1: a content-fingerprint group whose remaining members carry two or more
\* distinct non-empty normalized DOIs is refused whole: no merge is made or
\* counted for it.
C1_ConflictingContentGroupRefused ==
    (AfterFirstRun /\ Distinct(IdsOf(prev))) =>
        \A n \in DOMAIN ret.merges :
            ret.merges[n].kind = "content" => Cardinality(MemberDois(ret.merges[n])) <= 1

\* C2: on a collection with pairwise-distinct IDs, the deduplicator run on
\* its own output merges nothing: nothing is removed, the count is 0.
C2_SecondRunMergesNothing ==
    (AfterSecondRun /\ Distinct(IdsOf(input))) =>
        /\ ret.second.val = 0
        /\ ret.merges = <<>>
        /\ ret.removed = {}
        /\ entries = prev

\* The entry of the first run's input that a survivor of that run was.
Before(e) == input[PosOf(IdsOf(input), e["ID"])]

\* No survivor of the first run had its title, author or year filled in.
NoContentFieldGained ==
    \A i \in DOMAIN prev : \A k \in {"title", "author", "year"} :
        Get(prev[i], k) = Get(Before(prev[i]), k)

\* Where C2 does hold: on a collection with pairwise-distinct IDs the second
\* run merges nothing when the first run filled in no title, author or year
\* of a surviving entry.
C2_SecondRunMergesNothingUnlessFieldsGained ==
    (AfterSecondRun /\ Distinct(IdsOf(input)) /\ NoContentFieldGained) =>
        /\ ret.second.val = 0
        /\ ret.merges = <<>>
        /\ ret.removed = {}
        /\ entries = prev

\* Such a run: the first run merged a three-entry input with distinct IDs
\* into one entry and filled in a field of the master, but no title, author
\* or year, and the second run has been made.
C2_Witness ==
    /\ AfterSecondRun
    /\ Distinct(IdsOf(input))
    /\ Len(input) = 3
    /\ Len(prev) = 1
    /\ prev[1] # input[1]
    /\ NoContentFieldGained
    /\ "title" \in DOMAIN prev[1]

\* C6: two entries whose doi fields differ only in letter case, resolver
\* prefix or doi: label (they normalize to one DOI) get the same DOI
\* fingerprint, and the deduplicator merges them (they do not both survive).
C6_DoiVariantsShareFingerprint ==
    (AfterFirstRun /\ Distinct(IdsOf(prev))) =>
        \A i, j \in DOMAIN prev :
            (/\ i < j
             /\ normalize_doi(Get(prev[i], "doi")) # <<>>
             /\ normalize_doi(Get(prev[i], "doi")) = normalize_doi(Get(prev[j], "doi")))
            => /\ get_entry_fingerprint(prev[i]).doi_fp = get_entry_fingerprint(prev[j]).doi_fp
               /\ ~(prev[i]["ID"] \in Range(IdsOf(entries)) /\ prev[j]["ID"] \in Range(IdsOf(entries)))

\* The fingerprint a merge was grouped by, taken on the entries before the run.
FingerprintOf(kind, e) ==
    IF kind = "doi" THEN get_entry_fingerprint(e).doi_fp ELSE get_entry_fingerprint(e).content_fp

\* The IDs removed by the merges before the n-th.
RemovedBefore(merges, n) == Tails(SubSeq(merges, 1, n - 1))

C10_ReturnsMergeManifest ==
    (AfterFirstRun /\ prev = <<[ID |-> X1, doi |-> D_ABC], [ID |-> X2, doi |-> D_abc]>>) =>
        /\ IdsOf(entries) = <<X1>>
        /\ ret.second.type = "list"
        /\ ret.second.val = <<<<X1, <<X2>>>>>>

\* The IDs an ID was merged into, directly or through a chain of masters
\* (the ID itself included), following the merges of the run.
RECURSIVE MergedInto(_, _, _)
MergedInto(ids, merges, fuel) ==
    IF fuel = 0 THEN ids
    ELSE MergedInto(ids \cup {merges[n].ids[1] :
                                n \in {m \in DOMAIN merges :
                                          \E k \in 2..Len(merges[m].ids) : merges[m].ids[k] \in ids}},
                    merges, fuel - 1)

\* C16: the deduplicator loses no record outright, also when several entries
\* carry the same ID: every entry of the input is in the output or was merged,
\* directly or through a chain of masters, into an entry that is; so a
\* non-empty input never gives an empty output.
C16_NoRecordLost ==
    AfterFirstRun =>
        /\ prev # <<>> => entries # <<>>
        /\ \A i \in DOMAIN prev :
               MergedInto({prev[i]["ID"]}, ret.merges, Len(ret.merges))
                   \cap Range(IdsOf(entries)) # {}

\* Where C16 does hold: on an input with pairwise-distinct IDs.
C16_NoRecordLostOnDistinctIds ==
    (AfterFirstRun /\ Distinct(IdsOf(prev))) =>
        /\ prev # <<>> => entries # <<>>
        /\ \A i \in DOMAIN prev :
               MergedInto({prev[i]["ID"]}, ret.merges, Len(ret.merges))
                   \cap Range(IdsOf(entries)) # {}

(***************************************************************************)
(* cleaner.py and core.py: fix_bibliography, from the loaded database on.  *)
(***************************************************************************)
\* normalize_string: strip, then runs of whitespace become one space.
normalize_string(string) ==
    IF string = <<>> THEN <<>> ELSE collapse_spaces(strip(string))

\* The doi clean-up of clean_entry (lines 33-36).
clean_doi(value) == lower(sub_doi_label(sub_resolver(strip(value))))

\* clean_entry: the fields whose normalized value is not empty.
clean_entry(entry) ==
    LET kept == {k \in DOMAIN entry : normalize_string(entry[k]) # <<>>}
    IN  [k \in kept |-> IF k = "doi" THEN clean_doi(normalize_string(entry[k]))
                        ELSE normalize_string(entry[k])]

clean_database(es) == List([i \in DOMAIN es |-> clean_entry(es[i])])

T_spaced == <<" ","A"," "," ","S","t","u","d","y"," ","o","f"," ","W","i","d","g","e","t","s">>

\* The fields an entry of a loaded file carries besides its ID.
LoadedShapes ==
    { [doi |-> D_ABC],
      [doi |-> D_url],
      [title |-> T_spaced, author |-> A_first, year |-> Y_2020, note |-> <<" ">>],
      [title |-> T_widgets, author |-> A_first, year |-> Y_2020, doi |-> D_label] }

\* The stages of fix_bibliography that have run, in order.
NoStages == [op |-> "fix_bibliography", stages |-> <<>>]

InitPipeline ==
    /\ pc = "fix_bibliography: clean_database"
    /\ \E n \in 1..MaxEntries :
          \E ids \in KeyLists(n), shapes \in [1..n -> LoadedShapes] :
              input = List([i \in 1..n |-> Put(shapes[i], "ID", ids[i])])
    /\ prev = input
    /\ entries = input
    /\ ret = NoStages
    /\ runs = 0

\* core.py line 37: db = clean_database(db)
CleanDatabase ==
    /\ pc = "fix_bibliography: clean_database"
    /\ entries' = clean_database(entries)
    /\ ret' = [ret EXCEPT !.stages = Append(@, "clean_database")]
    /\ prev' = entries
    /\ pc' = "fix_bibliography: uniquify_keys"
    /\ UNCHANGED <<input, runs>>

\* core.py line 40: db, renamed_count = uniquify_keys(db)
UniquifyStage ==
    /\ pc = "fix_bibliography: uniquify_keys"
    /\ \E r \in {uniquify_keys(entries)} :
          /\ entries' = r.entries
          /\ ret' = [op |-> "fix_bibliography",
                     stages |-> Append(ret.stages, "uniquify_keys"),
                     renamed_count |-> r.renamed_count]
    /\ prev' = entries
    /\ pc' = "fix_bibliography: deduplicate_database"
    /\ UNCHANGED <<input, runs>>

\* core.py line 45: db, merges = deduplicate_database(db)
DeduplicateStage ==
    /\ pc = "fix_bibliography: deduplicate_database"
    /\ \E r \in {deduplicate_database(entries)} :
          /\ entries' = r.entries
          /\ ret' = [op |-> "fix_bibliography",
                     stages |-> Append(ret.stages, "deduplicate_database"),
                     renamed_count |-> ret.renamed_count,
                     merges |-> r.second]
    /\ prev' = entries
    /\ pc' = "fix_bibliography: merged_count"
    /\ UNCHANGED <<input, runs>>

\* core.py line 46: merged_count = sum(len(m[1]) for m in merges). Iterating
\* an int raises TypeError, which nothing catches: fix_bibliography ends
\* there. deduplicate_database never returns a list, so the statements from
\* line 47 on (enrich_database, check_fuzzy_duplicates, save_bib, the report)
\* are never reached.
CountMerged ==
    /\ pc = "fix_bibliography: merged_count"
    /\ pc' = IF ret.merges.type = "list" THEN "fix_bibliography: enrich_database"
             ELSE "fix_bibliography: raised TypeError"
    /\ UNCHANGED <<input, prev, entries, ret, runs>>

NextPipeline == CleanDatabase \/ UniquifyStage \/ DeduplicateStage \/ CountMerged

SpecPipeline == InitPipeline /\ [][NextPipeline]_vars

\* The fix_bibliography run is over: it returned or raised.
PipelineOver == pc \in {"fix_bibliography: done", "fix_bibliography: raised TypeError"}

\* Stage a has run, and stage b, if it has run, ran after it.
RanBefore(a, b) ==
    b \in Range(ret.stages) =>
        /\ a \in Range(ret.stages)
        /\ PosOf(ret.stages, a) < PosOf(ret.stages, b)

\* C15: the stages of fix_bibliography run in the order clean, deduplicate,
\* uniquify keys, enrich; the deduplicator runs before the key uniquifier,
\* the fuzzy duplicate audit after the merging, and a run makes them all.
C15_StagesInOrder ==
    ret.op = "fix_bibliography" =>
        /\ RanBefore("clean_database", "deduplicate_database")
        /\ RanBefore("deduplicate_database", "uniquify_keys")
        /\ RanBefore("uniquify_keys", "enrich_database")
        /\ RanBefore("deduplicate_database", "check_fuzzy_duplicates")
        /\ PipelineOver =>
               {"clean_database", "deduplicate_database", "uniquify_keys",
                "enrich_database", "check_fuzzy_duplicates"} \subseteq Range(ret.stages)

\* C15, the order alone: the deduplicator runs before the key uniquifier.
C15_DeduplicatorBeforeUniquifier ==
    ret.op = "fix_bibliography" => RanBefore("deduplicate_database", "uniquify_keys")

\* C15, the end alone: a run gets as far as the enrichment.
C15_RunReachesEnrichment ==
    (ret.op = "fix_bibliography" /\ PipelineOver) => "enrich_database" \in Range(ret.stages)

\* What the code does: clean, uniquify keys, deduplicate, then TypeError; the
\* deduplicator is always given pairwise-distinct IDs.
FixBibliographyStages ==
    ret.op = "fix_bibliography" =>
        /\ \E n \in 0..3 :
               ret.stages = SubSeq(<<"clean_database", "uniquify_keys", "deduplicate_database">>, 1, n)
        /\ pc = "fix_bibliography: deduplicate_database" => Distinct(IdsOf(entries))
        /\ pc # "fix_bibliography: enrich_database"
        /\ pc = "fix_bibliography: raised TypeError" => Len(ret.stages) = 3

====
